---- MODULE Spec2Model ----
(***************************************************************************)
(* Model of the hey-buddy backend's emotion recognition service            *)
(* (backend/app/services/emotion_recognition_service.py) and of the        *)
(* endpoints that call it (backend/app/api/v1/endpoints/emotion.py).       *)
(*                                                                         *)
(* Spec       the service under concurrent requests: the event loop, the   *)
(*            ThreadPoolExecutor and the jobs running on it.               *)
(* SpecAudio  _process_audio as a function of one audio input.             *)
(* SpecClassifier  the result dictionary as a function of the logits.      *)
(* SpecEntry  the entry points of the emotion service, one call at a time, *)
(*            each awaited to its result.                                  *)
(* SpecOps    the public operations of the face recognition service        *)
(*            (backend/app/core/face_recognition.py) and process_audio_file,*)
(*            one call at a time.                                          *)
(* SpecCompare  _compare_faces as a function of two encodings.             *)
(***************************************************************************)
EXTENDS Integers, Sequences, FiniteSets, TLC

VARIABLES
  model,              \* self.model: None, or the load that produced it
  feature_extractor,  \* self.feature_extractor: None, or the load that produced it
  pools,              \* number of ThreadPoolExecutor objects constructed
  jobs,               \* every work item ever submitted to self.executor
  queue,              \* the executor's work queue (job ids, FIFO)
  loads,              \* number of _load_model executions begun
  callers,            \* the requests: coroutine position and HTTP outcome
  a_pc,               \* SpecAudio: position of the single _process_audio call
  a_in,               \* SpecAudio: its arguments (audio_data, sample_rate)
  a_out,              \* SpecAudio: what it computed
  fn_pc,              \* position of the single call of a function under study
  fn_in,              \* its arguments
  fn_out,             \* what it returned
  users,              \* the users table: the rows by id
  files,              \* the image files under app/static/faces
  o_last,             \* the last call made one at a time, and its outcome
  schedules           \* the schedules table: the rows by id

vars == <<model, feature_extractor, pools, jobs, queue, loads, callers,
          a_pc, a_in, a_out, fn_pc, fn_in, fn_out, users, files, o_last,
          schedules>>

None == 0

(***************************************************************************)
(* Bounds                                                                  *)
(***************************************************************************)
MaxCallers == 3      \* concurrent requests
MaxJobs == 3         \* work items submitted to the executor in one run
MaxChannels == 2     \* channels of an audio input
MaxHalfSeconds == 3  \* audio inputs last up to MaxHalfSeconds * 0.5 s
MaxLogit == 2        \* the model's scores range over 0..MaxLogit
MaxUsers == 2        \* user ids range over 1..MaxUsers
MaxChunks == 4       \* base64_string arguments are made of up to MaxChunks pieces
MaxTime == 3         \* the instants of a schedule range over 1..MaxTime
MaxSchedules == 2    \* rows of the schedules table

(***************************************************************************)
(* Program constants                                                       *)
(***************************************************************************)
max_workers == 2
min_length == 16000
target_sr == 16000
default_sample_rate == 16000
test_srs == <<16000, 22050, 44100, 48000>>

(***************************************************************************)
(* Arrays.  A numpy array is its shape and its data; the data is kept      *)
(* column by column (one column for a 1-D array, one per channel for the   *)
(* frames-by-channels array soundfile returns), each column run-length     *)
(* encoded as a sequence of runs [v |-> sample value, n |-> count].        *)
(***************************************************************************)
RECURSIVE RunsLen(_)
RunsLen(rs) == IF rs = <<>> THEN 0 ELSE Head(rs).n + RunsLen(Tail(rs))

RECURSIVE RunsSum(_)
RunsSum(rs) == IF rs = <<>> THEN 0 ELSE Head(rs).v * Head(rs).n + RunsSum(Tail(rs))

\* canonical form of a run list: no empty runs, equal neighbours merged
RECURSIVE Canon(_)
Canon(rs) ==
  IF rs = <<>> THEN <<>>
  ELSE IF Head(rs).n = 0 THEN Canon(Tail(rs))
  ELSE LET rest == Canon(Tail(rs)) IN
       IF rest # <<>> /\ Head(rest).v = Head(rs).v
       THEN <<[v |-> Head(rs).v, n |-> Head(rs).n + Head(rest).n]>> \o Tail(rest)
       ELSE <<Head(rs)>> \o rest

Array1(rs) == [shape |-> <<RunsLen(rs)>>, data |-> <<Canon(rs)>>]

ndim(arr) == Len(arr.shape)

\* len(audio_array): the extent of the first axis
len(arr) == arr.shape[1]

CeilDiv(a, b) == (a + b - 1) \div b

\* run list rs stretched from orig_sr to new_sr: every run boundary b moves to
\* ceil(b * new_sr / orig_sr), so the length becomes ceil(len * new_sr / orig_sr)
RECURSIVE ScaleRuns(_, _, _, _)
ScaleRuns(rs, done, orig_sr, new_sr) ==
  IF rs = <<>> THEN <<>>
  ELSE LET lo == CeilDiv(done * new_sr, orig_sr)
           hi == CeilDiv((done + Head(rs).n) * new_sr, orig_sr)
       IN <<[v |-> Head(rs).v, n |-> hi - lo]>>
            \o ScaleRuns(Tail(rs), done + Head(rs).n, orig_sr, new_sr)

\* librosa.resample on a 1-D array
resample(arr, orig_sr, new_sr) ==
  IF orig_sr = new_sr THEN arr
  ELSE Array1(ScaleRuns(arr.data[1], 0, orig_sr, new_sr))

\* librosa.to_mono: the mean over every axis but the last
to_mono(arr) ==
  IF ndim(arr) = 1 THEN arr
  ELSE Array1([c \in 1..Len(arr.data) |->
                 [v |-> IF arr.shape[1] = 0 THEN 0
                        ELSE RunsSum(arr.data[c]) \div arr.shape[1],
                  n |-> 1]])

\* np.pad(arr, (before, after), 'constant')
pad(arr, before, after) ==
  Array1(<<[v |-> 0, n |-> before]>> \o arr.data[1] \o <<[v |-> 0, n |-> after]>>)

(***************************************************************************)
(* Audio inputs.  The bytes of a request are described by what the two     *)
(* codec libraries make of them: size is len(audio_data); native, frames   *)
(* and chans (the constant sample value of each channel) describe the      *)
(* recording; primary is the set of rates at which librosa.load            *)
(* succeeds and secondary tells whether soundfile.read succeeds.           *)
(***************************************************************************)
RECURSIVE SeqSum(_)
SeqSum(s) == IF s = <<>> THEN 0 ELSE Head(s) + SeqSum(Tail(s))

\* audio_array = None
NoArray == [shape |-> <<>>, data |-> <<>>]

Failed == [ok |-> FALSE, array |-> NoArray, sr |-> None]

\* librosa.load(io.BytesIO(audio_data), sr=rate): mono, resampled to rate
librosa_load(a, rate) ==
  IF a.size = 0 \/ rate \notin a.primary THEN Failed
  ELSE [ok |-> TRUE,
        array |-> resample(
                    Array1(<<[v |-> SeqSum(a.chans) \div Len(a.chans), n |-> a.frames]>>),
                    a.native, rate),
        sr |-> rate]

\* soundfile.read(io.BytesIO(audio_data)): frames, or frames by channels, at
\* the native rate
sf_read(a) ==
  IF a.size = 0 \/ ~a.secondary THEN Failed
  ELSE [ok |-> TRUE,
        array |-> IF Len(a.chans) = 1
                  THEN Array1(<<[v |-> a.chans[1], n |-> a.frames]>>)
                  ELSE [shape |-> <<a.frames, Len(a.chans)>>,
                        data |-> [c \in 1..Len(a.chans) |->
                                    Canon(<<[v |-> a.chans[c], n |-> a.frames]>>)]],
        sr |-> a.native]

(***************************************************************************)
(* _process_audio, lines 86-120: the decode cascade.  A decode state is    *)
(* (audio_array, sr) together with tried, the log of the library calls     *)
(* made so far.                                                            *)
(***************************************************************************)
Librosa(rate) == [lib |-> "librosa", sr |-> rate]
Soundfile == [lib |-> "soundfile", sr |-> None]

Undecoded == [array |-> NoArray, sr |-> None, tried |-> <<>>]

Decoded(d, r, strategy) ==
  [array |-> IF r.ok THEN r.array ELSE d.array,
   sr |-> IF r.ok THEN r.sr ELSE d.sr,
   tried |-> Append(d.tried, strategy)]

\* Method 1 (lines 90-95): librosa at the requested rate
Method1(d, a, sample_rate) ==
  Decoded(d, librosa_load(a, sample_rate), Librosa(sample_rate))

\* Method 2 (lines 97-104): soundfile, if librosa failed
Method2(d, a) ==
  IF d.array = NoArray THEN Decoded(d, sf_read(a), Soundfile) ELSE d

\* the loop of Method 3 (lines 109-115), from the i-th rate on
RECURSIVE TrySampleRates(_, _, _)
TrySampleRates(d, a, i) ==
  IF i > Len(test_srs) THEN d
  ELSE LET r == librosa_load(a, test_srs[i])
           d2 == Decoded(d, r, Librosa(test_srs[i]))
       IN IF r.ok THEN d2 ELSE TrySampleRates(d2, a, i + 1)

\* Method 3 (lines 106-117): librosa at the common rates, if still failing
Method3(d, a) ==
  IF d.array = NoArray THEN TrySampleRates(d, a, 1) ELSE d

\* variant of LoadAudio that retries librosa at the common rates before it
\* turns to soundfile
LoadAudio_rates_first(a, sample_rate) ==
  Method2(Method3(Method1(Undecoded, a, sample_rate), a), a)

LoadAudio(a, sample_rate) == Method3(Method2(Method1(Undecoded, a, sample_rate), a), a)

(***************************************************************************)
(* _process_audio, lines 122-135: normalization                            *)
(***************************************************************************)
\* lines 122-124
EnsureMono(arr) == IF ndim(arr) > 1 THEN to_mono(arr) ELSE arr

\* lines 126-129
Resample16k(arr, sr) == IF sr # 16000 THEN resample(arr, sr, target_sr) ELSE arr

\* the first n samples of a run list, and the rest
RECURSIVE Take(_, _)
Take(rs, n) ==
  IF rs = <<>> \/ n <= 0 THEN <<>>
  ELSE IF Head(rs).n <= n THEN <<Head(rs)>> \o Take(Tail(rs), n - Head(rs).n)
  ELSE <<[v |-> Head(rs).v, n |-> n]>>

RECURSIVE Drop(_, _)
Drop(rs, n) ==
  IF rs = <<>> \/ n <= 0 THEN rs
  ELSE IF Head(rs).n <= n THEN Drop(Tail(rs), n - Head(rs).n)
  ELSE <<[v |-> Head(rs).v, n |-> Head(rs).n - n]>> \o Tail(rs)

\* variant of EnsureMinLength that also cuts longer waveforms to min_length
EnsureMinLength_fixed(arr) ==
  IF len(arr) < min_length THEN pad(arr, 0, min_length - len(arr))
  ELSE Array1(Take(arr.data[1], min_length))

\* lines 131-135
EnsureMinLength(arr) ==
  IF len(arr) < min_length THEN pad(arr, 0, min_length - len(arr)) ELSE arr

(***************************************************************************)
(* _process_audio as a whole (lines 83-177), in the two stages that read   *)
(* the shared state: lines 86-143 end by calling self.feature_extractor,   *)
(* lines 145-173 call self.model.  fault names the library call that       *)
(* raises, if any.                                                         *)
(***************************************************************************)
DecodeErrorText == "Could not load audio with any method"
InferenceErrorText == "inference failed"
NoneCallText == "'NoneType' object is not callable"

NoResult == [raised |-> FALSE, error |-> "", tried |-> <<>>,
             decoded |-> NoArray, decoded_sr |-> None,
             mono |-> NoArray, mono16k |-> NoArray, audio_array |-> NoArray, sr |-> None,
             features |-> None, forward |-> None,
             audio_duration_x16000 |-> 0, sample_rate |-> None]

Raise(r, text) == [r EXCEPT !.raised = TRUE, !.error = text]

\* lines 86-143: decode, normalize, extract features with fe
features_stage(a, sample_rate, fe, fault) ==
  LET d == LoadAudio(a, sample_rate)
      mono == EnsureMono(d.array)
      resampled == Resample16k(mono, d.sr)
      padded == EnsureMinLength(resampled)
      loaded == [NoResult EXCEPT !.tried = d.tried, !.decoded = d.array,
                                 !.decoded_sr = d.sr]
      normalized == [loaded EXCEPT !.mono = mono, !.mono16k = resampled,
                                   !.audio_array = padded,
                                   !.sr = IF d.sr # 16000 THEN target_sr ELSE d.sr]
  IN IF d.array = NoArray THEN Raise(loaded, DecodeErrorText)
     ELSE IF fe = None THEN Raise(normalized, NoneCallText)
     ELSE IF fault = "features" THEN Raise(normalized, InferenceErrorText)
     ELSE [normalized EXCEPT !.features = fe]

\* lines 145-173: forward pass with mdl, result dictionary
forward_stage(r, mdl, fault) ==
  IF mdl = None THEN Raise(r, NoneCallText)
  ELSE IF fault = "forward" THEN Raise(r, InferenceErrorText)
  ELSE [r EXCEPT !.forward = mdl,
                 !.audio_duration_x16000 = len(r.audio_array),
                 !.sample_rate = 16000]

process_audio(a, sample_rate, fe, mdl, fault) ==
  LET r == features_stage(a, sample_rate, fe, fault)
  IN IF r.raised THEN r ELSE forward_stage(r, mdl, fault)

(***************************************************************************)
(* The audio inputs and calls SpecAudio explores                           *)
(***************************************************************************)
SampleValues == {2, 4}
NativeRates == {16000, 44100}
FrameCounts == {8000 * k : k \in 0..MaxHalfSeconds} \cup {15999, 16001}
HintRates == {16000, 22050}
PrimaryRates == {16000, 22050, 48000}

ChannelValues == UNION {[1..c -> SampleValues] : c \in 1..MaxChannels}

EmptyAudio ==
  [size |-> 0, native |-> 16000, frames |-> 0, chans |-> <<2>>,
   primary |-> {}, secondary |-> FALSE]

AudioInputs ==
  {EmptyAudio} \cup
  {a \in [size : {1}, native : NativeRates, frames : FrameCounts,
          chans : ChannelValues, primary : SUBSET PrimaryRates,
          secondary : BOOLEAN] :
     a.frames > 0 \/ Len(a.chans) = 1}

Faults == {"none", "features", "forward"}

NoCall == [audio |-> EmptyAudio, sample_rate |-> default_sample_rate]


(***************************************************************************)
(* Calls made one at a time.  o_last records the call (op, args), the      *)
(* service state it found (pre) and its outcome: whether an exception left *)
(* the operation (raised), the value returned (ret), the work items it     *)
(* submitted to the executor and the text of the internal exception it     *)
(* met, if any.                                                            *)
(***************************************************************************)
UserIds == 1..MaxUsers

\* a face_encoding column: NULL, or the JSON text of a list of numbers
SqlNull == [null |-> TRUE, json |-> <<>>]

\* a face_image_path column that is NULL
NoPath == [user_id |-> None]

\* an id crud_user.get finds no row for
NoRow ==
  [present |-> FALSE, face_encoding |-> SqlNull, face_image_path |-> NoPath,
   face_enabled |-> FALSE]

NoUsers == [u \in UserIds |-> NoRow]

NoOp ==
  [op |-> "none", args |-> <<>>, pre |-> <<>>, raised |-> FALSE, ret |-> <<>>,
   submitted |-> 0, internal |-> "", calls |-> <<>>, compared |-> 0]

(***************************************************************************)
(* The service under concurrent requests                                   *)
(***************************************************************************)
Callers == 1..MaxCallers

GoodAudio ==
  [size |-> 1, native |-> 16000, frames |-> 8000, chans |-> <<2>>,
   primary |-> PrimaryRates, secondary |-> TRUE]

BadAudio ==
  [size |-> 1, native |-> 16000, frames |-> 8000, chans |-> <<2>>,
   primary |-> {}, secondary |-> FALSE]

ServiceAudio == {EmptyAudio, BadAudio, GoodAudio}
ContentTypes == {"audio/wav", "text/plain"}
LoadErrorTexts == {"model weights not found"}

IdleCaller ==
  [kind |-> "none", pc |-> "idle", audio |-> EmptyAudio,
   sample_rate |-> default_sample_rate, load_job |-> None, job |-> None,
   exc |-> "", status |-> None, detail |-> <<>>]

\* a work item of self.executor; first tells whether the service was
\* unloaded when it was submitted, rivals holds the load jobs whose callers
\* were still inside initialize_model at that moment
NewJob(kind, c, a, sr, rivals) ==
  [kind |-> kind, owner |-> c, st |-> "queued", audio |-> a,
   sample_rate |-> sr, first |-> (model = None \/ feature_extractor = None),
   rivals |-> rivals, ok |-> FALSE, error |-> "", res |-> NoResult]

JobIds == 1..Len(jobs)
RunningStates == {"running", "forward"}
Running == {j \in JobIds : jobs[j].st \in RunningStates}
Executed(j) == jobs[j].st \in RunningStates \cup {"done"}

\* the load jobs some caller is awaiting inside initialize_model
PendingLoads ==
  {j \in JobIds : jobs[j].kind = "load" /\
                  \E c \in Callers : callers[c].pc = "await_load" /\
                                     callers[c].load_job = j}

\* ThreadPoolExecutor.submit via loop.run_in_executor
Submit(job) ==
  /\ jobs' = Append(jobs, job)
  /\ queue' = Append(queue, Len(jobs) + 1)

\* the variables of the other specifications
UNCHANGED_rest ==
  UNCHANGED <<a_pc, a_in, a_out, fn_pc, fn_in, fn_out, users, files, o_last,
          schedules>>

\* the work items the requests in flight may still submit: a classification
\* request waiting for its load submits its processing job afterwards
Owed ==
  Cardinality({c \in Callers : callers[c].kind = "analyze" /\
                               callers[c].pc = "await_load"})

\* requests are numbered in the order they arrive; a request that may
\* submit up to `needs` work items arrives only while the run has room for them
Arrives(c, needs) ==
  /\ callers[c].pc = "idle"
  /\ IF c = 1 THEN TRUE ELSE callers[c - 1].pc # "idle"
  /\ Len(jobs) + Owed + needs <= MaxJobs

\* initialize_model up to its await (lines 25-39): the load is submitted
\* whatever the state of self.model
initialize_model_call(c, caller) ==
  /\ Submit(NewJob("load", c, caller.audio, caller.sample_rate, PendingLoads))
  /\ callers' = [callers EXCEPT ![c] =
                   [caller EXCEPT !.pc = "await_load", !.load_job = Len(jobs) + 1]]

\* process_audio_file lines 63-70: the processing job is submitted
submit_process_audio(c, caller) ==
  /\ Submit(NewJob("process", c, caller.audio, caller.sample_rate, {}))
  /\ callers' = [callers EXCEPT ![c] =
                   [caller EXCEPT !.pc = "await_proc", !.job = Len(jobs) + 1]]

\* variant of NotInitialized without the lazy initialization
NotInitialized_skipped(m, fe) == FALSE

\* process_audio_file line 60
NotInitialized(m, fe) == m = None \/ fe = None

\* process_audio_file up to its first await (lines 57-70)
process_audio_file_call(c, caller) ==
  IF NotInitialized(model, feature_extractor)
  THEN initialize_model_call(c, caller)
  ELSE submit_process_audio(c, caller)

Respond(caller, status, detail) ==
  [caller EXCEPT !.pc = "returned", !.status = status, !.detail = detail]

\* POST /test/initialize-model (endpoints/emotion.py lines 309-316)
test_initialize_emotion_model(c) ==
  /\ Arrives(c, 1)
  /\ initialize_model_call(c, [callers[c] EXCEPT !.kind = "init_test"])
  /\ UNCHANGED <<model, feature_extractor, pools, loads>>
  /\ UNCHANGED_rest

\* POST /initialize-model (lines 187-209): answers 200 and runs
\* initialize_model as a background task
initialize_emotion_model(c) ==
  /\ Arrives(c, 1)
  /\ initialize_model_call(c, [callers[c] EXCEPT
                                 !.kind = "init_bg", !.status = 200,
                                 !.detail = <<"Emotion recognition model initialization started">>])
  /\ UNCHANGED <<model, feature_extractor, pools, loads>>
  /\ UNCHANGED_rest

\* POST /analyze-audio and /test/analyze-audio (lines 55-82, 212-237)
analyze_audio_emotion(c, content_type, a) ==
  /\ Arrives(c, IF content_type # "audio/wav" \/ a.size = 0 THEN 0
                ELSE IF NotInitialized(model, feature_extractor) THEN 2 ELSE 1)
  /\ LET rejected == [callers[c] EXCEPT !.kind = "analyze"]
         caller == [rejected EXCEPT !.audio = a] IN
     IF content_type # "audio/wav"
     THEN /\ callers' = [callers EXCEPT ![c] =
                Respond(rejected, 400, <<"Invalid file type. Please upload an audio file.">>)]
          /\ UNCHANGED <<jobs, queue>>
     ELSE IF a.size = 0
     THEN /\ callers' = [callers EXCEPT ![c] =
                Respond(rejected, 400, <<"Empty audio file">>)]
          /\ UNCHANGED <<jobs, queue>>
     ELSE process_audio_file_call(c, caller)
  /\ UNCHANGED <<model, feature_extractor, pools, loads>>
  /\ UNCHANGED_rest

\* variant of HasIdleWorker for a pool that starts a thread per work item
HasIdleWorker_unbounded == TRUE

\* a worker thread of the pool takes the next work item
HasIdleWorker == Cardinality(Running) < max_workers

WorkerTakes ==
  /\ queue # <<>>
  /\ HasIdleWorker
  /\ LET j == Head(queue) IN
     /\ jobs' = [jobs EXCEPT ![j].st = "running"]
     /\ loads' = IF jobs[j].kind = "load" THEN loads + 1 ELSE loads
  /\ queue' = Tail(queue)
  /\ UNCHANGED <<model, feature_extractor, pools, callers>>
  /\ UNCHANGED_rest

\* _load_model (lines 47-55) returns its pair or raises
load_model(j, ok, text) ==
  /\ jobs[j].kind = "load" /\ jobs[j].st = "running"
  /\ jobs' = [jobs EXCEPT ![j].st = "done", ![j].ok = ok,
                          ![j].error = IF ok THEN "" ELSE text]
  /\ UNCHANGED <<model, feature_extractor, pools, queue, loads, callers>>
  /\ UNCHANGED_rest

\* _process_audio lines 86-143 on a worker thread
process_audio_features(j, fault) ==
  /\ jobs[j].kind = "process" /\ jobs[j].st = "running"
  /\ LET r == features_stage(jobs[j].audio, jobs[j].sample_rate,
                             feature_extractor, fault) IN
     jobs' = [jobs EXCEPT ![j].res = r,
                          ![j].st = IF r.raised THEN "done" ELSE "forward",
                          ![j].error = r.error]
  /\ UNCHANGED <<model, feature_extractor, pools, queue, loads, callers>>
  /\ UNCHANGED_rest

\* variant of process_audio_forward that discards the model when the forward
\* pass raises
process_audio_forward_resets(j, fault) ==
  /\ jobs[j].kind = "process" /\ jobs[j].st = "forward"
  /\ LET r == forward_stage(jobs[j].res, model, fault) IN
     /\ jobs' = [jobs EXCEPT ![j].res = r, ![j].st = "done",
                             ![j].ok = ~r.raised, ![j].error = r.error]
     /\ model' = IF r.raised THEN None ELSE model
  /\ UNCHANGED <<feature_extractor, pools, queue, loads, callers>>
  /\ UNCHANGED_rest

\* _process_audio lines 145-177 on a worker thread
process_audio_forward(j, fault) ==
  /\ jobs[j].kind = "process" /\ jobs[j].st = "forward"
  /\ LET r == forward_stage(jobs[j].res, model, fault) IN
     jobs' = [jobs EXCEPT ![j].res = r, ![j].st = "done",
                          ![j].ok = ~r.raised, ![j].error = r.error]
  /\ UNCHANGED <<model, feature_extractor, pools, queue, loads, callers>>
  /\ UNCHANGED_rest

\* variant of AssignLoaded that stores the model before the outcome of the
\* load is known
AssignLoaded_partial(j) ==
  IF jobs[j].ok THEN [model |-> j, feature_extractor |-> j]
  ELSE [model |-> j, feature_extractor |-> feature_extractor]

\* the assignment of line 35, made only when the awaited load returned
AssignLoaded(j) ==
  IF jobs[j].ok THEN [model |-> j, feature_extractor |-> j]
  ELSE [model |-> model, feature_extractor |-> feature_extractor]

\* the exception initialize_model hands to its caller (lines 43-45)
InitRaises(j) == IF jobs[j].ok THEN "" ELSE jobs[j].error

\* the coroutine resumes from the await of initialize_model (lines 35-45) and
\* runs to its caller's next await or response
initialize_model_returns(c) ==
  /\ callers[c].pc = "await_load"
  /\ LET j == callers[c].load_job
         caller == [callers[c] EXCEPT !.exc = InitRaises(j)] IN
     /\ jobs[j].st = "done"
     /\ model' = AssignLoaded(j).model
     /\ feature_extractor' = AssignLoaded(j).feature_extractor
     /\ IF caller.kind = "init_test"
        THEN /\ callers' = [callers EXCEPT ![c] =
                  IF caller.exc = ""
                  THEN Respond(caller, 200, <<"Emotion recognition model initialized successfully">>)
                  ELSE Respond(caller, 500, <<"Internal server error: ", caller.exc>>)]
             /\ UNCHANGED <<jobs, queue>>
        ELSE IF caller.kind = "init_bg"
        THEN /\ callers' = [callers EXCEPT ![c] = [caller EXCEPT !.pc = "returned"]]
             /\ UNCHANGED <<jobs, queue>>
        ELSE IF caller.exc = ""
        THEN submit_process_audio(c, caller)
        ELSE /\ callers' = [callers EXCEPT ![c] =
                  Respond(caller, 500, <<"Error processing audio: ", caller.exc>>)]
             /\ UNCHANGED <<jobs, queue>>
  /\ UNCHANGED <<pools, loads>>
  /\ UNCHANGED_rest

\* variant of process_audio_file_returns in which the exception of a failed
\* job never reaches the awaiting coroutine
process_audio_file_returns_quiet(c) ==
  /\ callers[c].pc = "await_proc"
  /\ LET j == callers[c].job IN
     /\ jobs[j].st = "done" /\ ~jobs[j].res.raised
     /\ callers' = [callers EXCEPT ![c] = Respond(callers[c], 200, <<"success">>)]
  /\ UNCHANGED <<model, feature_extractor, pools, jobs, queue, loads>>
  /\ UNCHANGED_rest

\* the coroutine resumes from the await of process_audio_file (lines 65-81)
\* and the endpoint answers (endpoints/emotion.py lines 84-98)
process_audio_file_returns(c) ==
  /\ callers[c].pc = "await_proc"
  /\ LET j == callers[c].job IN
     /\ jobs[j].st = "done"
     /\ callers' = [callers EXCEPT ![c] =
          IF jobs[j].res.raised
          THEN Respond(callers[c], 500, <<"Error processing audio: ", jobs[j].error>>)
          ELSE Respond(callers[c], 200, <<"success">>)]
  /\ UNCHANGED <<model, feature_extractor, pools, jobs, queue, loads>>
  /\ UNCHANGED_rest

\* variant of CancelFuture that also cancels a work item a worker has taken
CancelFuture_any(job) == [job EXCEPT !.st = "cancelled"]

\* what cancelling the awaiting coroutine does to its work item: a queued
\* item is cancelled, an item a worker has taken is not affected
CancelFuture(job) ==
  IF job.st = "queued" THEN [job EXCEPT !.st = "cancelled"] ELSE job

\* the caller stops waiting for its processing job (timeout or cancellation
\* of the task suspended at the await of process_audio_file, line 65)
AbandonWait(c) ==
  /\ callers[c].pc = "await_proc"
  /\ LET j == callers[c].job IN
     /\ jobs[j].st # "done"
     /\ jobs' = [jobs EXCEPT ![j] = CancelFuture(jobs[j])]
     /\ queue' = SelectSeq(queue, LAMBDA i : jobs'[i].st = "queued")
  /\ callers' = [callers EXCEPT ![c].pc = "cancelled"]
  /\ UNCHANGED <<model, feature_extractor, pools, loads>>
  /\ UNCHANGED_rest

Init ==
  /\ model = None
  /\ feature_extractor = None
  /\ pools = 1
  /\ jobs = <<>>
  /\ queue = <<>>
  /\ loads = 0
  /\ callers = [c \in Callers |-> IdleCaller]
  /\ a_pc = "idle"
  /\ a_in = NoCall
  /\ a_out = NoResult
  /\ fn_pc = "idle"
  /\ fn_in = <<>>
  /\ fn_out = <<>>
  /\ users = NoUsers
  /\ files = {}
  /\ o_last = NoOp
  /\ schedules = <<>>

Next ==
  \/ \E c \in Callers : test_initialize_emotion_model(c)
  \/ \E c \in Callers : initialize_emotion_model(c)
  \/ \E c \in Callers, t \in ContentTypes, a \in ServiceAudio :
       analyze_audio_emotion(c, t, a)
  \/ WorkerTakes
  \/ \E j \in JobIds, ok \in BOOLEAN, text \in LoadErrorTexts : load_model(j, ok, text)
  \/ \E j \in JobIds : process_audio_features(j, "none")
  \/ \E j \in JobIds, fault \in {"none", "forward"} : process_audio_forward(j, fault)
  \/ \E c \in Callers : initialize_model_returns(c)
  \/ \E c \in Callers : process_audio_file_returns(c)
  \/ \E c \in Callers : AbandonWait(c)

Spec == Init /\ [][Next]_vars

\* a step of the thread pool other than the first stage of _process_audio: an
\* idle worker takes the next work item, a load ends, a forward pass ends
PoolStep ==
  \/ WorkerTakes
  \/ \E j \in JobIds, ok \in BOOLEAN, text \in LoadErrorTexts : load_model(j, ok, text)
  \/ \E j \in JobIds, fault \in {"none", "forward"} : process_audio_forward(j, fault)

\* process_audio_features(j, "none") is enabled exactly when job j is a
\* processing job a worker has taken, and is the only step that moves such a
\* job on
FeaturesPending ==
  \E j \in JobIds : jobs[j].kind = "process" /\ jobs[j].st = "running"

FeaturesDone ==
  \E j \in JobIds : /\ jobs[j].kind = "process" /\ jobs[j].st = "running"
                    /\ jobs'[j].st \in {"forward", "done"}

\* a step of the event loop: a coroutine whose awaited future is done resumes
LoopStep ==
  \/ \E c \in Callers : initialize_model_returns(c)
  \/ \E c \in Callers : process_audio_file_returns(c)

\* the scheduling the liveness of the service rests on: the pool and the
\* event loop each take a step when they have one, and every job a worker
\* has taken terminates (the third conjunct is the weak fairness of
\* process_audio_features written with its enabling condition).  Nothing
\* obliges a request to arrive or a caller to abandon its wait.
Fairness ==
  /\ WF_vars(PoolStep)
  /\ WF_vars(LoopStep)
  /\ ([]<>(~FeaturesPending) \/ []<><<FeaturesDone>>_vars)

\* the requests that call process_audio_file or load the model, whose callers
\* keep waiting, with the steps of the pool and of the event loop
NextLive ==
  \/ \E c \in Callers : test_initialize_emotion_model(c)
  \/ \E c \in Callers, a \in {BadAudio, GoodAudio} :
       analyze_audio_emotion(c, "audio/wav", a)
  \/ PoolStep
  \/ \E j \in JobIds : process_audio_features(j, "none")
  \/ LoopStep

SpecLive == Init /\ [][NextLive]_vars /\ Fairness

(***************************************************************************)
(* _process_audio on one input, with the model loaded                      *)
(***************************************************************************)
AudioCalls == [audio : AudioInputs, sample_rate : HintRates]

InitAudio ==
  /\ model = 1
  /\ feature_extractor = 1
  /\ pools = 1
  /\ jobs = <<>>
  /\ queue = <<>>
  /\ loads = 1
  /\ callers = [c \in Callers |-> IdleCaller]
  /\ a_pc = "call"
  /\ a_in \in AudioCalls
  /\ a_out = NoResult
  /\ fn_pc = "idle"
  /\ fn_in = <<>>
  /\ fn_out = <<>>
  /\ users = NoUsers
  /\ files = {}
  /\ o_last = NoOp
  /\ schedules = <<>>

RunProcessAudio(fault) ==
  /\ a_pc = "call"
  /\ a_out' = process_audio(a_in.audio, a_in.sample_rate, feature_extractor,
                            model, fault)
  /\ a_pc' = IF a_out'.raised THEN "raised" ELSE "returned"
  /\ UNCHANGED <<a_in, model, feature_extractor, pools, jobs, queue, loads, callers>>
  /\ UNCHANGED <<fn_pc, fn_in, fn_out, users, files, o_last, schedules>>

NextAudio == \E fault \in Faults : RunProcessAudio(fault)

SpecAudio == InitAudio /\ [][NextAudio]_vars

(***************************************************************************)
(* The result dictionary (lines 148-173) as a function of outputs.logits.  *)
(* Probabilities are fixed-point numbers, in units of 1 / ProbOne.         *)
(***************************************************************************)
emotion_labels ==
  <<"angry", "calm", "disgust", "fearful", "happy", "neutral", "sad", "surprised">>

ProbOne == 100000

\* 100 * e^x for x = 0..4
ExpTable == <<100, 272, 739, 2009, 5460>>
Exp(x) == ExpTable[x + 1]

\* a / b rounded to the nearest integer
RoundDiv(a, b) == (2 * a + b) \div (2 * b)

\* variant of softmax that squashes every score on its own (a sigmoid)
softmax_sigmoid(logits) ==
  [i \in DOMAIN logits |-> RoundDiv(Exp(logits[i]) * ProbOne, Exp(logits[i]) + Exp(0))]

\* torch.nn.functional.softmax(outputs.logits, dim=-1)[0]
softmax(logits) ==
  LET e == [i \in DOMAIN logits |-> Exp(logits[i])]
      total == SeqSum(e)
  IN [i \in DOMAIN logits |-> RoundDiv(e[i] * ProbOne, total)]

\* {label: float(prob) for label, prob in zip(labels, probabilities)}
zip_dict(labels, probabilities) ==
  LET n == IF Len(labels) < Len(probabilities) THEN Len(labels) ELSE Len(probabilities)
  IN [l \in {labels[i] : i \in 1..n} |->
        probabilities[CHOOSE i \in 1..n : labels[i] = l]]

\* variant of argmax that returns the last index of the maximum
argmax_last(p) ==
  CHOOSE i \in DOMAIN p : /\ \A j \in DOMAIN p : p[j] <= p[i]
                          /\ \A j \in DOMAIN p : j > i => p[j] < p[i]

\* np.argmax: the first index of the maximum
argmax(p) ==
  CHOOSE i \in DOMAIN p : /\ \A j \in DOMAIN p : p[j] <= p[i]
                          /\ \A j \in DOMAIN p : j < i => p[j] < p[i]

\* lines 151-170
predictions(logits) ==
  LET probabilities == softmax(logits)
      dominant_emotion_idx == argmax(probabilities)
  IN [emotions |-> zip_dict(emotion_labels, probabilities),
      dominant_emotion |-> emotion_labels[dominant_emotion_idx],
      confidence |-> probabilities[dominant_emotion_idx]]

\* the model scores each of its 8 labels
LogitVectors == [1..Len(emotion_labels) -> 0..MaxLogit]

InitClassifier ==
  /\ model = 1
  /\ feature_extractor = 1
  /\ pools = 1
  /\ jobs = <<>>
  /\ queue = <<>>
  /\ loads = 1
  /\ callers = [c \in Callers |-> IdleCaller]
  /\ a_pc = "idle"
  /\ a_in = NoCall
  /\ a_out = NoResult
  /\ fn_pc = "call"
  /\ fn_in \in [logits : LogitVectors]
  /\ fn_out = <<>>
  /\ users = NoUsers
  /\ files = {}
  /\ o_last = NoOp
  /\ schedules = <<>>

Classify ==
  /\ fn_pc = "call"
  /\ fn_out' = predictions(fn_in.logits)
  /\ fn_pc' = "returned"
  /\ UNCHANGED <<fn_in, model, feature_extractor, pools, jobs, queue, loads, callers>>
  /\ UNCHANGED <<a_pc, a_in, a_out, users, files, o_last, schedules>>

NextClassifier == Classify

SpecClassifier == InitClassifier /\ [][NextClassifier]_vars

(***************************************************************************)
(* The entry points of the emotion service called one at a time and        *)
(* awaited to their result.  st is the service state (model,               *)
(* feature_extractor, loads); ok and text tell how _load_model ends if it  *)
(* runs, fault names the library call of _process_audio that raises, if    *)
(* any, and logits is what the model computes.                             *)
(***************************************************************************)
InternalTexts == LoadErrorTexts \cup {"CUDA out of memory"}

ServiceState == [model |-> model, feature_extractor |-> feature_extractor,
                 loads |-> loads]

\* variant of Caught for an operation without its except clause
Caught_reraise(body, failure) == body

\* try: body / except Exception: return failure
Caught(body, failure) ==
  IF body.raised THEN [body EXCEPT !.raised = FALSE, !.ret = failure] ELSE body

\* the dictionary of lines 76-81 and 200-205
ErrorDict(text) ==
  [error |-> text, emotions |-> <<>>, dominant_emotion |-> "unknown",
   confidence |-> 0]

\* the dictionary of lines 183-188
NoChunksDict ==
  [emotions |-> <<>>, dominant_emotion |-> "neutral", confidence |-> 0,
   error |-> "No audio data provided"]

\* the dictionary of lines 167-173
ResultDict(r, logits) ==
  LET p == predictions(logits)
  IN [emotions |-> p.emotions, dominant_emotion |-> p.dominant_emotion,
      confidence |-> p.confidence,
      audio_duration_x16000 |-> r.audio_duration_x16000, sample_rate |-> 16000]

\* initialize_model (lines 25-45) awaited: one _load_model on the executor
initialize_model_result(st, ok, text) ==
  [model |-> IF ok THEN st.loads + 1 ELSE st.model,
   feature_extractor |-> IF ok THEN st.loads + 1 ELSE st.feature_extractor,
   loads |-> st.loads + 1,
   raised |-> ~ok, error |-> IF ok THEN "" ELSE text, ret |-> <<>>,
   submitted |-> 1, internal |-> IF ok THEN "" ELSE text]

\* lines 60-61: the lazy load
initialize_if_needed(st, ok, text) ==
  IF NotInitialized(st.model, st.feature_extractor)
  THEN initialize_model_result(st, ok, text)
  ELSE [model |-> st.model, feature_extractor |-> st.feature_extractor,
        loads |-> st.loads, raised |-> FALSE, error |-> "",
        ret |-> <<>>, submitted |-> 0, internal |-> ""]

\* lines 63-72: the outcome once _process_audio has ended with r
after_process_audio(ini, r, logits) ==
  IF ini.raised THEN ini
  ELSE [ini EXCEPT !.raised = r.raised, !.error = r.error,
                   !.ret = IF r.raised THEN <<>> ELSE ResultDict(r, logits),
                   !.submitted = ini.submitted + 1,
                   !.internal = IF r.raised /\ r.error # DecodeErrorText
                                THEN r.error ELSE ""]

\* lines 63-72: _process_audio on the executor, with the state the lazy load left
run_process_audio(ini, a, sample_rate, fault, logits) ==
  after_process_audio(ini,
                      process_audio(a, sample_rate, ini.feature_extractor,
                                    ini.model, fault),
                      logits)

\* lines 74-81 and 198-205: the except clause of the two service operations
CaughtAsErrorDict(body) == Caught(body, ErrorDict(body.error))

\* process_audio_file (lines 57-81) awaited
process_audio_file_result(st, a, sample_rate, ok, text, fault, logits) ==
  CaughtAsErrorDict(run_process_audio(initialize_if_needed(st, ok, text),
                                      a, sample_rate, fault, logits))

\* b''.join(audio_chunks) for chunks of which at most one is not empty
join(chunks) ==
  LET full == SelectSeq(chunks, LAMBDA a : a.size > 0)
  IN IF full = <<>> THEN EmptyAudio ELSE full[1]

\* process_audio_stream (lines 179-205) awaited
process_audio_stream_result(st, chunks, sample_rate, ok, text, fault, logits) ==
  IF chunks = <<>>
  THEN [model |-> st.model, feature_extractor |-> st.feature_extractor,
        loads |-> st.loads, raised |-> FALSE, error |-> "", ret |-> NoChunksDict,
        submitted |-> 0, internal |-> ""]
  ELSE CaughtAsErrorDict(process_audio_file_result(st, join(chunks), sample_rate,
                                                   ok, text, fault, logits))

\* HTTPException(status_code, detail) as the framework answers it
HttpError(out, status, detail) ==
  [out EXCEPT !.ret = [status |-> status, detail |-> detail, data |-> <<>>]]

\* the rest of an analyze endpoint once process_audio_file has returned
\* (endpoints/emotion.py lines 84-98, 132-146, 239-260)
AnswerResult(out, prefix) ==
  IF "error" \in DOMAIN out.ret
  THEN HttpError(out, 500, <<prefix, out.ret.error>>)
  ELSE [out EXCEPT !.ret = [status |-> 200, detail |-> <<>>, data |-> out.ret]]

Untouched(st) ==
  [model |-> st.model, feature_extractor |-> st.feature_extractor,
   loads |-> st.loads, raised |-> FALSE, error |-> "", ret |-> <<>>,
   submitted |-> 0, internal |-> ""]

\* POST /analyze-audio and POST /test/analyze-audio (lines 55-107, 212-269)
analyze_audio_emotion_response(st, content_type, a, ok, text, fault, logits) ==
  IF content_type # "audio/wav"
  THEN HttpError(Untouched(st), 400, <<"Invalid file type. Please upload an audio file.">>)
  ELSE IF a.size = 0
  THEN HttpError(Untouched(st), 400, <<"Empty audio file">>)
  ELSE AnswerResult(process_audio_file_result(st, a, default_sample_rate,
                                              ok, text, fault, logits),
                    "Error processing audio: ")

\* POST /analyze-stream (lines 109-155)
analyze_audio_stream_response(st, a, sample_rate, ok, text, fault, logits) ==
  IF a.size = 0
  THEN HttpError(Untouched(st), 400, <<"Empty audio file">>)
  ELSE AnswerResult(process_audio_file_result(st, a, sample_rate,
                                              ok, text, fault, logits),
                    "Error processing audio stream: ")

\* POST /test/initialize-model (lines 309-336)
test_initialize_emotion_model_response(st, ok, text) ==
  LET out == initialize_model_result(st, ok, text)
  IN IF out.raised
     THEN HttpError([out EXCEPT !.raised = FALSE], 500,
                    <<"Internal server error: ", out.error>>)
     ELSE [out EXCEPT !.ret = [status |-> 200,
                               detail |-> <<"Emotion recognition model initialized successfully">>,
                               data |-> <<>>]]

EntryOps == {"analyze_audio", "test_analyze_audio", "analyze_stream",
             "test_initialize_model", "process_audio_file", "process_audio_stream"}
HttpOps == {"analyze_audio", "test_analyze_audio", "analyze_stream",
            "test_initialize_model"}

DefaultArgs ==
  [content_type |-> "audio/wav", audio |-> EmptyAudio, chunks |-> <<>>,
   sample_rate |-> default_sample_rate, ok |-> TRUE, text |-> "",
   fault |-> "none", logits |-> [i \in DOMAIN emotion_labels |-> 0]]

\* the outcome of entry point op called with args in service state st
EntryOutcome(op, args, st) ==
  CASE op \in {"analyze_audio", "test_analyze_audio"} ->
         analyze_audio_emotion_response(st, args.content_type, args.audio,
                                        args.ok, args.text, args.fault, args.logits)
    [] op = "analyze_stream" ->
         analyze_audio_stream_response(st, args.audio, args.sample_rate,
                                       args.ok, args.text, args.fault, args.logits)
    [] op = "test_initialize_model" ->
         test_initialize_emotion_model_response(st, args.ok, args.text)
    [] op = "process_audio_file" ->
         process_audio_file_result(st, args.audio, args.sample_rate,
                                   args.ok, args.text, args.fault, args.logits)
    [] op = "process_audio_stream" ->
         process_audio_stream_result(st, args.chunks, args.sample_rate,
                                     args.ok, args.text, args.fault, args.logits)

\* the service and o_last after a call that ended with out
EntryEffect(op, args, out) ==
  /\ model' = out.model
  /\ feature_extractor' = out.feature_extractor
  /\ loads' = out.loads
  /\ o_last' = [op |-> op, args |-> args, pre |-> ServiceState,
                raised |-> out.raised, ret |-> out.ret,
                submitted |-> out.submitted, internal |-> out.internal,
                calls |-> <<>>, compared |-> 0]

\* one call of an entry point, from request to response
EntryCall(op, args) ==
  /\ loads < MaxJobs
  /\ EntryEffect(op, args, EntryOutcome(op, args, ServiceState))
  /\ UNCHANGED <<pools, jobs, queue, callers, users, files>>
  /\ UNCHANGED <<a_pc, a_in, a_out, fn_pc, fn_in, fn_out, schedules>>

EntryLogits == {[i \in DOMAIN emotion_labels |-> IF i = 5 THEN 1 ELSE 0]}

ChunkLists ==
  {<<>>} \cup {<<a>> : a \in ServiceAudio} \cup {<<EmptyAudio, a>> : a \in ServiceAudio}

\* the ways the libraries behave during one call
Behaviours ==
  {b \in [ok : BOOLEAN, text : InternalTexts \cup {""}, fault : {"none", "forward"},
          logits : EntryLogits] : b.ok <=> b.text = ""}

WithBehaviour(args, b) ==
  [args EXCEPT !.ok = b.ok, !.text = b.text, !.fault = b.fault, !.logits = b.logits]

call_analyze_audio_emotion(t, a, b) ==
  EntryCall("analyze_audio",
            WithBehaviour([DefaultArgs EXCEPT !.content_type = t, !.audio = a], b))

call_test_analyze_audio_emotion(t, a, b) ==
  EntryCall("test_analyze_audio",
            WithBehaviour([DefaultArgs EXCEPT !.content_type = t, !.audio = a], b))

call_analyze_audio_stream(a, sr, b) ==
  EntryCall("analyze_stream",
            WithBehaviour([DefaultArgs EXCEPT !.audio = a, !.sample_rate = sr], b))

call_test_initialize_emotion_model(b) ==
  EntryCall("test_initialize_model", WithBehaviour(DefaultArgs, b))

call_process_audio_file(a, sr, b) ==
  EntryCall("process_audio_file",
            WithBehaviour([DefaultArgs EXCEPT !.audio = a, !.sample_rate = sr], b))

call_process_audio_stream(chunks, sr, b) ==
  EntryCall("process_audio_stream",
            WithBehaviour([DefaultArgs EXCEPT !.chunks = chunks, !.sample_rate = sr], b))

NextEntry ==
  \/ \E t \in ContentTypes, a \in ServiceAudio, b \in Behaviours :
       call_analyze_audio_emotion(t, a, b)
  \/ \E t \in ContentTypes, a \in ServiceAudio, b \in Behaviours :
       call_test_analyze_audio_emotion(t, a, b)
  \/ \E a \in ServiceAudio, sr \in HintRates, b \in Behaviours :
       call_analyze_audio_stream(a, sr, b)
  \/ \E b \in Behaviours : call_test_initialize_emotion_model(b)
  \/ \E a \in ServiceAudio, sr \in HintRates, b \in Behaviours :
       call_process_audio_file(a, sr, b)
  \/ \E chunks \in ChunkLists, sr \in HintRates, b \in Behaviours :
       call_process_audio_stream(chunks, sr, b)

SpecEntry == Init /\ [][NextEntry]_vars

(***************************************************************************)
(* The face recognition service (core/face_recognition.py).  Encodings are *)
(* vectors of fixed-point numbers in units of 1 / 10000.                   *)
(***************************************************************************)
tolerance == 6000

\* the names bound at module level (lines 1-18); cv2 is imported only inside
\* _base64_to_image (line 38) and _save_face_image (line 74)
ModuleNames ==
  {"base64", "json", "os", "Optional", "List", "np", "Session", "crud_user",
   "User", "face_recognition", "FACE_RECOGNITION_AVAILABLE",
   "FaceRecognitionService"}

NoEncoding == <<>>
NoImage == [decoded |-> FALSE, faces |-> <<>>]
NoUser == None

json_dumps(encoding) == [null |-> FALSE, json |-> encoding]
json_loads(text) == text.json

\* os.path.join(self.face_storage_path, f"face_{user_id}.jpg")
FacePath(user_id) == [user_id |-> user_id]

\* _base64_to_image (lines 26-43); cv2.imdecode returns None for bytes that
\* are not an image
base64_to_image(img) ==
  IF img.prefix = "data:image" /\ ~img.comma
  THEN [raised |-> TRUE, image |-> NoImage]
  ELSE IF ~img.b64_ok THEN [raised |-> TRUE, image |-> NoImage]
  ELSE [raised |-> FALSE,
        image |-> IF img.raster THEN [decoded |-> TRUE, faces |-> img.faces]
                  ELSE NoImage]

\* variant of get_face_encoding in a module that binds the name cv2
get_face_encoding_bound(image, available) ==
  IF ~available THEN NoEncoding
  ELSE IF ~image.decoded THEN NoEncoding
  ELSE IF image.faces = <<>> THEN NoEncoding
  ELSE image.faces[1]

\* variant of get_face_encoding that yields an encoding for any image
get_face_encoding_blank(image, available) ==
  IF ~available THEN NoEncoding
  ELSE IF image.faces = <<>> THEN <<0, 0>>
  ELSE image.faces[1]

\* _get_face_encoding (lines 45-70): line 52 reads the global name cv2
get_face_encoding(image, available) ==
  IF ~available THEN NoEncoding
  ELSE IF "cv2" \notin ModuleNames THEN NoEncoding
  ELSE IF ~image.decoded THEN NoEncoding
  ELSE IF image.faces = <<>> THEN NoEncoding
  ELSE image.faces[1]

\* the square of face_recognition.face_distance([enc1], enc2)[0]
DistSq(enc1, enc2) ==
  SeqSum([i \in DOMAIN enc1 |-> (enc1[i] - enc2[i]) * (enc1[i] - enc2[i])])

\* variant of compare_faces that accepts only distances below the tolerance
compare_faces_strict(encoding1, encoding2, available) ==
  IF ~available THEN FALSE
  ELSE IF Len(encoding1) # Len(encoding2) THEN FALSE
  ELSE DistSq(encoding1, encoding2) < tolerance * tolerance

\* _compare_faces (lines 84-99): distance <= self.tolerance
compare_faces(encoding1, encoding2, available) ==
  IF ~available THEN FALSE
  ELSE IF Len(encoding1) # Len(encoding2) THEN FALSE
  ELSE DistSq(encoding1, encoding2) <= tolerance * tolerance

\* variant of users_with_face without the filter on face_enabled
users_with_face_any(us) ==
  SelectSeq([u \in UserIds |-> u],
            LAMBDA u : us[u].present /\ ~us[u].face_encoding.null)

\* lines 146-149: the rows with face_enabled and a non-NULL face_encoding, in
\* the order of their ids
users_with_face(us) ==
  SelectSeq([u \in UserIds |-> u],
            LAMBDA u : /\ us[u].present /\ us[u].face_enabled
                       /\ ~us[u].face_encoding.null)

\* lines 152-161: the first candidate _compare_faces accepts
RECURSIVE FirstMatch(_, _, _, _)
FirstMatch(us, face_encoding, candidates, available) ==
  IF candidates = <<>> THEN NoUser
  ELSE IF compare_faces(face_encoding, json_loads(us[Head(candidates)].face_encoding),
                        available)
       THEN Head(candidates)
       ELSE FirstMatch(us, face_encoding, Tail(candidates), available)

\* crud_user.get(db, id=user_id): the id of the row, or none
crud_user_get(us, user_id) == IF us[user_id].present THEN user_id ELSE NoUser

\* what a call leaves behind: the table, the files, whether it raised, what it
\* returned, the calls it made on db and the files it wrote with cv2.imwrite,
\* in order, and how many times it compared encodings
FaceOutcome(us, fs, raised, ret) ==
  [users |-> us, files |-> fs, raised |-> raised, ret |-> ret, calls |-> <<>>,
   compared |-> 0]

Traced(out, calls, compared) == [out EXCEPT !.calls = calls, !.compared = compared]

\* register_face (lines 101-131); fault names the call that raises, if any
register_face_result(us, fs, user_id, img, enable_face_login, available, fault) ==
  LET dec == base64_to_image(img)
      face_encoding == get_face_encoding(dec.image, available)
      saved == fs \cup {FacePath(user_id)}
      updated == [us EXCEPT ![user_id].face_encoding = json_dumps(face_encoding),
                            ![user_id].face_image_path = FacePath(user_id),
                            ![user_id].face_enabled = enable_face_login]
      body ==
        IF dec.raised THEN FaceOutcome(us, fs, TRUE, FALSE)
        ELSE IF face_encoding = NoEncoding THEN FaceOutcome(us, fs, FALSE, FALSE)
        ELSE IF fault = "imwrite" THEN FaceOutcome(us, fs, TRUE, FALSE)
        ELSE IF fault = "get"
          THEN Traced(FaceOutcome(us, saved, TRUE, FALSE), <<"imwrite", "get">>, 0)
        ELSE IF crud_user_get(us, user_id) = NoUser
          THEN Traced(FaceOutcome(us, saved, FALSE, FALSE), <<"imwrite", "get">>, 0)
        ELSE IF fault = "commit"
          THEN Traced(FaceOutcome(us, saved, TRUE, FALSE),
                      <<"imwrite", "get", "commit">>, 0)
        ELSE Traced(FaceOutcome(updated, saved, FALSE, TRUE),
                    <<"imwrite", "get", "commit">>, 0)
  IN Caught(body, FALSE)

\* lines 152-161: the loop compares the candidates up to the one it returns
Scanned(us, fs, candidates, found) ==
  Traced(FaceOutcome(us, fs, FALSE, found), <<"query">>,
         IF found = NoUser THEN Len(candidates)
         ELSE CHOOSE i \in DOMAIN candidates : candidates[i] = found)

\* authenticate_by_face (lines 133-165)
authenticate_by_face_result(us, fs, img, available, fault) ==
  LET dec == base64_to_image(img)
      face_encoding == get_face_encoding(dec.image, available)
      body ==
        IF dec.raised THEN FaceOutcome(us, fs, TRUE, NoUser)
        ELSE IF face_encoding = NoEncoding THEN FaceOutcome(us, fs, FALSE, NoUser)
        ELSE IF fault = "query"
          THEN Traced(FaceOutcome(us, fs, TRUE, NoUser), <<"query">>, 0)
        ELSE Scanned(us, fs, users_with_face(us),
                     FirstMatch(us, face_encoding, users_with_face(us), available))
  IN Caught(body, NoUser)

\* remove_face (lines 167-188)
remove_face_result(us, fs, user_id, fault) ==
  LET path == us[user_id].face_image_path
      on_disk == path # NoPath /\ path \in fs
      removed == IF on_disk THEN fs \ {path} ELSE fs
      cleared == [us EXCEPT ![user_id].face_encoding = SqlNull,
                            ![user_id].face_image_path = NoPath,
                            ![user_id].face_enabled = FALSE]
      body ==
        IF fault = "get" THEN Traced(FaceOutcome(us, fs, TRUE, FALSE), <<"get">>, 0)
        ELSE IF crud_user_get(us, user_id) = NoUser
          THEN Traced(FaceOutcome(us, fs, FALSE, FALSE), <<"get">>, 0)
        ELSE IF on_disk /\ fault = "remove"
          THEN Traced(FaceOutcome(us, fs, TRUE, FALSE), <<"get">>, 0)
        ELSE IF fault = "commit"
          THEN Traced(FaceOutcome(us, removed, TRUE, FALSE), <<"get", "commit">>, 0)
        ELSE Traced(FaceOutcome(cleared, removed, FALSE, TRUE), <<"get", "commit">>, 0)
  IN Caught(body, FALSE)

\* one call of a face operation
FaceCall(op, args, out) ==
  /\ users' = out.users
  /\ files' = out.files
  /\ o_last' = [op |-> op, args |-> args, pre |-> [users |-> users, files |-> files],
                raised |-> out.raised, ret |-> out.ret, submitted |-> 0,
                internal |-> "", calls |-> out.calls, compared |-> out.compared]
  /\ UNCHANGED <<model, feature_extractor, pools, jobs, queue, loads, callers>>
  /\ UNCHANGED <<a_pc, a_in, a_out, fn_pc, fn_in, fn_out, schedules>>

call_register_face(user_id, img, enable_face_login, available, fault) ==
  FaceCall("register_face",
           [user_id |-> user_id, image |-> img, enable |-> enable_face_login,
            available |-> available, fault |-> fault],
           register_face_result(users, files, user_id, img, enable_face_login,
                                available, fault))

call_authenticate_by_face(img, available, fault) ==
  FaceCall("authenticate_by_face",
           [user_id |-> None, image |-> img, enable |-> FALSE,
            available |-> available, fault |-> fault],
           authenticate_by_face_result(users, files, img, available, fault))

call_remove_face(user_id, fault) ==
  FaceCall("remove_face",
           [user_id |-> user_id, image |-> <<>>, enable |-> FALSE,
            available |-> TRUE, fault |-> fault],
           remove_face_result(users, files, user_id, fault))

\* the encodings of the faces in the images and in the users table
E0 == <<0, 0>>
E1 == <<6000, 0>>
E2 == <<6000, 1>>
StoredEncodings == {E0, E2}

Picture(faces) ==
  [prefix |-> "", comma |-> FALSE, b64_ok |-> TRUE, raster |-> TRUE, faces |-> faces]

Images ==
  {Picture(<<E1>>), Picture(<<E0, E2>>), Picture(<<>>),
   [Picture(<<E1>>) EXCEPT !.b64_ok = FALSE],
   [Picture(<<>>) EXCEPT !.raster = FALSE],
   [Picture(<<E0>>) EXCEPT !.prefix = "data:image", !.comma = TRUE]}

\* the rows the users table may hold for user u when the process starts
Rows(u) ==
  {NoRow, [NoRow EXCEPT !.present = TRUE]} \cup
  {[present |-> TRUE, face_encoding |-> json_dumps(e),
    face_image_path |-> FacePath(u), face_enabled |-> en] :
     e \in StoredEncodings, en \in BOOLEAN}

InitOps ==
  /\ model = None
  /\ feature_extractor = None
  /\ pools = 1
  /\ jobs = <<>>
  /\ queue = <<>>
  /\ loads = 0
  /\ callers = [c \in Callers |-> IdleCaller]
  /\ a_pc = "idle"
  /\ a_in = NoCall
  /\ a_out = NoResult
  /\ fn_pc = "idle"
  /\ fn_in = <<>>
  /\ fn_out = <<>>
  /\ users \in {us \in [UserIds -> UNION {Rows(u) : u \in UserIds}] :
                  \A u \in UserIds : us[u] \in Rows(u)}
  /\ files = {users[u].face_image_path : u \in UserIds} \ {NoPath}
  /\ o_last = NoOp
  /\ schedules = <<>>

OpsBehaviours == {b \in Behaviours : b.ok \/ b.fault = "none"}

\* the two services share no state, so a run calls one of them
NextOps ==
  \/ /\ o_last.op # "process_audio_file"
     /\ \/ \E u \in UserIds, img \in Images, en \in BOOLEAN, fault \in {"none", "commit"} :
             call_register_face(u, img, en, TRUE, fault)
        \/ \E img \in Images, fault \in {"none", "query"} :
             call_authenticate_by_face(img, TRUE, fault)
        \/ \E u \in UserIds, fault \in {"none", "get", "remove", "commit"} :
             call_remove_face(u, fault)
  \/ /\ o_last.op \in {"none", "process_audio_file"}
     /\ \E a \in {BadAudio, GoodAudio}, b \in OpsBehaviours :
          call_process_audio_file(a, default_sample_rate, b)

SpecOps == InitOps /\ [][NextOps]_vars

(***************************************************************************)
(* _compare_faces on one pair of encodings                                 *)
(***************************************************************************)
CompareEncodings == {<<x, y>> : x \in {0, 3600, 6000}, y \in {0, 1, 4800}}

InitCompare ==
  /\ model = None
  /\ feature_extractor = None
  /\ pools = 1
  /\ jobs = <<>>
  /\ queue = <<>>
  /\ loads = 0
  /\ callers = [c \in Callers |-> IdleCaller]
  /\ a_pc = "idle"
  /\ a_in = NoCall
  /\ a_out = NoResult
  /\ fn_pc = "call"
  /\ fn_in \in [encoding1 : CompareEncodings, encoding2 : CompareEncodings,
                available : BOOLEAN]
  /\ fn_out = <<>>
  /\ users = NoUsers
  /\ files = {}
  /\ o_last = NoOp
  /\ schedules = <<>>

CompareFaces ==
  /\ fn_pc = "call"
  /\ fn_out' = [match |-> compare_faces(fn_in.encoding1, fn_in.encoding2,
                                        fn_in.available)]
  /\ fn_pc' = "returned"
  /\ UNCHANGED <<fn_in, model, feature_extractor, pools, jobs, queue, loads, callers>>
  /\ UNCHANGED <<a_pc, a_in, a_out, users, files, o_last, schedules>>

NextCompare == CompareFaces

SpecCompare == InitCompare /\ [][NextCompare]_vars

(***************************************************************************)
(* Functions called on one argument: the text _base64_to_image hands to    *)
(* base64.b64decode, the colour and emoji lookups, and the routing of one  *)
(* request.  A string is the sequence of its pieces; the pieces are chosen *)
(* so that a string starts with 'data:image' exactly when its first piece  *)
(* is that one, and holds a comma exactly where a piece is the comma.      *)
(***************************************************************************)
Pieces == {"data:image", ",", "/9j/4AAQ"}
Strings == UNION {[1..n -> Pieces] : n \in 0..MaxChunks}

\* str.startswith
startswith(s, prefix) == Len(s) > 0 /\ s[1] = prefix

\* str.split(sep): the parts between the separators
RECURSIVE split(_, _)
split(s, sep) ==
  IF \A i \in DOMAIN s : s[i] # sep THEN <<s>>
  ELSE LET i == CHOOSE k \in DOMAIN s : s[k] = sep /\ \A m \in 1..(k - 1) : s[m] # sep
       IN <<SubSeq(s, 1, i - 1)>> \o split(SubSeq(s, i + 1, Len(s)), sep)

\* _base64_to_image, lines 28-34 and 42-43: the argument of base64.b64decode,
\* or the IndexError of split(',')[1] raised again as ValueError
b64decode_argument(base64_string) ==
  IF startswith(base64_string, "data:image")
  THEN LET parts == split(base64_string, ",")
       IN IF Len(parts) < 2 THEN [raised |-> TRUE, text |-> <<>>]
          ELSE [raised |-> FALSE, text |-> parts[2]]
  ELSE [raised |-> FALSE, text |-> base64_string]

\* get_emotion_color, lines 209-218
emotion_colors ==
  [angry |-> "#ef4444", calm |-> "#10b981", disgust |-> "#8b5cf6",
   fearful |-> "#f59e0b", happy |-> "#f59e0b", neutral |-> "#6b7280",
   sad |-> "#3b82f6", surprised |-> "#ec4899"]

\* get_emotion_emoji, lines 223-232: the code points of each string literal
emotion_emojis ==
  [angry |-> <<287, 376, 732, 160>>, calm |-> <<287, 376, 732, 338>>,
   disgust |-> <<287, 376, 164, 162>>, fearful |-> <<287, 376, 732, 168>>,
   happy |-> <<287, 376, 732, 352>>, neutral |-> <<287, 376, 732>>,
   sad |-> <<287, 376, 732, 162>>, surprised |-> <<287, 376, 732, 178>>]

\* dict.get(key, default)
dict_get(d, key, default) == IF key \in DOMAIN d THEN d[key] ELSE default

\* variant of get_emotion_color whose default is white
get_emotion_color_white(emotion) == dict_get(emotion_colors, emotion, "#ffffff")

\* get_emotion_color, line 219, and get_emotion_emoji, line 233
get_emotion_color(emotion) == dict_get(emotion_colors, emotion, "#6b7280")
get_emotion_emoji(emotion) == dict_get(emotion_emojis, emotion, <<287, 376, 732>>)

\* the labels the lookups are called with: the label set, the labels of the
\* error dictionaries, and strings that are no label
LookupLabels ==
  {emotion_labels[i] : i \in DOMAIN emotion_labels} \cup
  {"unknown", "", "Happy", "None", "joy"}

\* main.py line 44 and config.py line 10: the prefix of api_router
API_V1_STR == <<"api", "v1">>

\* api.py lines 7-11: the prefixes of the routers api_router includes
api_router == {"auth", "users", "notes", "tasks", "schedules"}

Route(method, path, endpoint) == [method |-> method, path |-> path, endpoint |-> endpoint]

\* the routes of emotion.router, by the decorators of emotion.py
emotion_router ==
  {Route("OPTIONS", <<"test", "initialize-model">>, "options_initialize_model"),
   Route("OPTIONS", <<"test", "analyze-audio">>, "options_analyze_audio"),
   Route("OPTIONS", <<"test", "emotion-info">>, "options_emotion_info"),
   Route("POST", <<"analyze-audio">>, "analyze_audio_emotion"),
   Route("POST", <<"analyze-stream">>, "analyze_audio_stream"),
   Route("GET", <<"emotion-info">>, "get_emotion_info"),
   Route("POST", <<"initialize-model">>, "initialize_emotion_model"),
   Route("POST", <<"test", "analyze-audio">>, "test_analyze_audio_emotion"),
   Route("GET", <<"test", "emotion-info">>, "test_get_emotion_info"),
   Route("POST", <<"test", "initialize-model">>, "test_initialize_emotion_model")}

\* main.py lines 47-58: the routes of the application itself
app_routes == {Route("GET", <<>>, "root"), Route("GET", <<"health">>, "health_check")}

NotFound == [endpoint |-> "", status |-> 404]

\* the endpoint of a router that serves the request: 404 when no route has the
\* path, 405 when one has it under another method
Match(routes, method, path) ==
  IF \E r \in routes : r.path = path /\ r.method = method
  THEN [endpoint |-> (CHOOSE r \in routes : r.path = path /\ r.method = method).endpoint,
        status |-> 200]
  ELSE IF \E r \in routes : r.path = path THEN [endpoint |-> "", status |-> 405]
  ELSE NotFound

\* the routes of main.py in the order they are added: the OPTIONS handler for
\* every path (line 30), the routers api_router includes (line 44), then / and
\* /health; a request into a router other than emotion.router ends at that
\* router, whose routes are not detailed
Resolve(method, path) ==
  IF method = "OPTIONS" THEN [endpoint |-> "global_options_handler", status |-> 200]
  ELSE IF Len(path) > 2 /\ SubSeq(path, 1, 2) = API_V1_STR /\ path[3] \in api_router
  THEN IF path[3] = "emotion"
       THEN Match(emotion_router, method, SubSeq(path, 4, Len(path)))
       ELSE [endpoint |-> path[3], status |-> 200]
  ELSE Match(app_routes, method, path)

\* test_get_emotion_info and get_emotion_info (lines 157-185, 271-307): the
\* data of the response
emotion_info ==
  [emotions |-> [i \in DOMAIN emotion_labels |->
                   [emotion |-> emotion_labels[i],
                    color |-> get_emotion_color(emotion_labels[i]),
                    emoji |-> get_emotion_emoji(emotion_labels[i])]],
   total_emotions |-> Len(emotion_labels)]

\* the response to a request whose endpoint succeeds
Response(method, path) ==
  LET to == Resolve(method, path)
  IN [endpoint |-> to.endpoint, status |-> to.status,
      data |-> IF to.endpoint \in {"get_emotion_info", "test_get_emotion_info"}
               THEN emotion_info ELSE <<>>]

\* the requests: every route of emotion.router under /api/v1/emotion and
\* without the prefix, and the routes of main.py
Requests ==
  {[method |-> r.method, path |-> prefix \o r.path] :
     r \in emotion_router, prefix \in {API_V1_STR \o <<"emotion">>, <<"emotion">>}}
  \cup {[method |-> r.method, path |-> r.path] : r \in app_routes}
  \cup {[method |-> "GET", path |-> API_V1_STR \o <<"schedules">>]}

NoArgs ==
  [kind |-> "none", base64_string |-> <<>>, emotion |-> "", method |-> "",
   path |-> <<>>]

InitCalls ==
  /\ model = None
  /\ feature_extractor = None
  /\ pools = 1
  /\ jobs = <<>>
  /\ queue = <<>>
  /\ loads = 0
  /\ callers = [c \in Callers |-> IdleCaller]
  /\ a_pc = "idle"
  /\ a_in = NoCall
  /\ a_out = NoResult
  /\ fn_pc = "call"
  /\ fn_in \in {[NoArgs EXCEPT !.kind = "b64", !.base64_string = s] : s \in Strings}
             \cup {[NoArgs EXCEPT !.kind = "lookup", !.emotion = e] : e \in LookupLabels}
             \cup {[NoArgs EXCEPT !.kind = "request", !.method = r.method,
                                  !.path = r.path] : r \in Requests}
  /\ fn_out = <<>>
  /\ users = NoUsers
  /\ files = {}
  /\ o_last = NoOp
  /\ schedules = <<>>

Returns(value) ==
  /\ fn_out' = value
  /\ fn_pc' = "returned"
  /\ UNCHANGED <<fn_in, model, feature_extractor, pools, jobs, queue, loads, callers>>
  /\ UNCHANGED <<a_pc, a_in, a_out, users, files, o_last, schedules>>

Base64ToImage ==
  /\ fn_pc = "call" /\ fn_in.kind = "b64"
  /\ Returns(b64decode_argument(fn_in.base64_string))

EmotionLookup ==
  /\ fn_pc = "call" /\ fn_in.kind = "lookup"
  /\ Returns([color |-> get_emotion_color(fn_in.emotion),
              emoji |-> get_emotion_emoji(fn_in.emotion)])

Serve ==
  /\ fn_pc = "call" /\ fn_in.kind = "request"
  /\ Returns(Response(fn_in.method, fn_in.path))

NextCalls ==
  \/ Base64ToImage
  \/ EmotionLookup
  \/ Serve

SpecCalls == InitCalls /\ [][NextCalls]_vars

(***************************************************************************)
(* The schedule endpoints (app/api/v1/endpoints/schedules.py)              *)
(***************************************************************************)

\* the instants a request may name, and the users who may send it
Times == 1..MaxTime
OptionalTimes == {None} \cup Times
CurrentUsers == 1..MaxUsers

\* ScheduleUpdate: each time is optional
ScheduleUpdate(start_time, end_time) == [start_time |-> start_time, end_time |-> end_time]

ScheduleOutcome(store, status_code) == [schedules |-> store, status_code |-> status_code]

\* CRUDSchedule.create_with_owner: one more row, its id the next one
create_with_owner(store, start_time, end_time, owner_id) ==
  Append(store, [owner_id |-> owner_id, start_time |-> start_time, end_time |-> end_time])

\* CRUDBase.update: the fields the request supplies replace the row's
crud_schedule_update(db_obj, obj_in) ==
  [db_obj EXCEPT !.start_time = IF obj_in.start_time # None THEN obj_in.start_time ELSE @,
                 !.end_time = IF obj_in.end_time # None THEN obj_in.end_time ELSE @]

\* CRUDBase.get: the row of that id, if there is one
crud_schedule_get(store, schedule_id) == schedule_id \in DOMAIN store

create_schedule_result(store, current_user, start_time, end_time) ==
  IF end_time <= start_time
  THEN ScheduleOutcome(store, 400)
  ELSE ScheduleOutcome(create_with_owner(store, start_time, end_time, current_user), 200)

update_schedule_result(store, current_user, schedule_id, schedule_in) ==
  IF ~crud_schedule_get(store, schedule_id) THEN ScheduleOutcome(store, 404)
  ELSE IF store[schedule_id].owner_id # current_user THEN ScheduleOutcome(store, 403)
  ELSE IF /\ schedule_in.start_time # None
          /\ schedule_in.end_time # None
          /\ schedule_in.end_time <= schedule_in.start_time
       THEN ScheduleOutcome(store, 400)
       ELSE ScheduleOutcome([store EXCEPT ![schedule_id] =
                               crud_schedule_update(store[schedule_id], schedule_in)], 200)

\* one request to a schedule endpoint, from request to response
ScheduleCall(op, args, out) ==
  /\ schedules' = out.schedules
  /\ o_last' = [NoOp EXCEPT !.op = op, !.args = args, !.ret = out.status_code,
                            !.pre = schedules]
  /\ UNCHANGED <<model, feature_extractor, pools, jobs, queue, loads, callers>>
  /\ UNCHANGED <<a_pc, a_in, a_out, fn_pc, fn_in, fn_out, users, files>>

create_schedule(current_user, start_time, end_time) ==
  /\ Len(schedules) < MaxSchedules
  /\ ScheduleCall("create_schedule", ScheduleUpdate(start_time, end_time),
                  create_schedule_result(schedules, current_user, start_time, end_time))

update_schedule(current_user, schedule_id, start_time, end_time) ==
  ScheduleCall("update_schedule", ScheduleUpdate(start_time, end_time),
               update_schedule_result(schedules, current_user, schedule_id,
                                      ScheduleUpdate(start_time, end_time)))

InitSchedules ==
  /\ model = None
  /\ feature_extractor = None
  /\ pools = 1
  /\ jobs = <<>>
  /\ queue = <<>>
  /\ loads = 0
  /\ callers = [c \in Callers |-> IdleCaller]
  /\ a_pc = "idle"
  /\ a_in = NoCall
  /\ a_out = NoResult
  /\ fn_pc = "idle"
  /\ fn_in = NoArgs
  /\ fn_out = <<>>
  /\ users = NoUsers
  /\ files = {}
  /\ o_last = NoOp
  /\ schedules = <<>>

NextSchedules ==
  \/ \E u \in CurrentUsers, s \in Times, e \in Times : create_schedule(u, s, e)
  \/ \E u \in CurrentUsers, id \in 1..MaxSchedules, s \in OptionalTimes, e \in OptionalTimes :
       update_schedule(u, id, s, e)

SpecSchedules == InitSchedules /\ [][NextSchedules]_vars

(***************************************************************************)
(* Properties of the model loader and the worker pool (Spec)               *)
(***************************************************************************)
LoadJobs == {j \in JobIds : jobs[j].kind = "load"}
ProcessJobs == {j \in JobIds : jobs[j].kind = "process"}

\* C1: of two loads requested by concurrent first-time callers (each
\* submitted while the service was unloaded, the second while the first
\* caller was still inside initialize_model), at most one is ever executed
C1_ConcurrentFirstCallsLoadOnce ==
  \A i, j \in LoadJobs :
    (jobs[i].first /\ jobs[j].first /\ i \in jobs[j].rivals)
      => ~(Executed(i) /\ Executed(j))

\* C2: initialize_model called with model and feature extractor loaded does
\* not start a load: every load was submitted while the service was unloaded
C2_InitializeWhenLoadedIsNoOp ==
  \A j \in LoadJobs : jobs[j].first

\* C3: the model and the feature extractor are set together or not at all,
\* and when a caller resumes from a failed load the failure is raised to it
\* and model and feature extractor stay as they were (unset, if they were)
C3_FailedLoadLeavesUninitialized ==
  [][/\ (model' = None) <=> (feature_extractor' = None)
     /\ \A c \in Callers :
          (/\ callers[c].pc = "await_load"
           /\ jobs[callers[c].load_job].st = "done"
           /\ ~jobs[callers[c].load_job].ok
           /\ callers'[c].pc # "await_load")
          => /\ model' = model
             /\ feature_extractor' = feature_extractor
             /\ callers'[c].exc # ""
             /\ callers'[c].exc = jobs[callers[c].load_job].error]_vars

\* C3 witness: a load failed and was raised to its caller, the service was
\* still unloaded, and a later initialize_model loaded it
C3_Witness ==
  \E c \in Callers, j \in LoadJobs :
    /\ callers[c].exc # ""
    /\ callers[c].load_job < j
    /\ callers[c].load_job \notin jobs[j].rivals
    /\ jobs[j].first
    /\ jobs[j].ok
    /\ model = j /\ feature_extractor = j

\* C4: a processing job exists only once model and feature extractor are
\* set: the request that found them unset has had its load complete
\* successfully before it submitted the job, and no stage of a job has
\* called an unset feature extractor or model
C4_NoJobRunsUnloaded ==
  \A j \in ProcessJobs :
    /\ model # None /\ feature_extractor # None
    /\ jobs[j].error # NoneCallText
    /\ jobs[j].st = "forward" => jobs[j].res.features # None
    /\ LET l == callers[jobs[j].owner].load_job IN
       l # None => (l < j /\ jobs[l].st = "done" /\ jobs[l].ok)

\* C4 witness: a request found the model unloaded while another load was in
\* flight, initialized it, and its job ran both stages
C4_Witness ==
  \E j \in ProcessJobs :
    LET l == callers[jobs[j].owner].load_job IN
    /\ l # None
    /\ jobs[l].rivals # {}
    /\ jobs[j].st = "done"
    /\ jobs[j].res.forward # None

\* C5: once loaded, model and feature extractor are never assigned again
C5_LoadedPairNeverReplaced ==
  [][/\ model # None => model' = model
     /\ feature_extractor # None => feature_extractor' = feature_extractor]_vars

\* C6: there is one pool, at most max_workers (2) jobs are executing, and
\* every other job that is neither finished nor cancelled waits in the queue
C6_PoolBounded ==
  /\ pools = 1
  /\ Cardinality(Running) <= max_workers
  /\ \A j \in JobIds :
       jobs[j].st = "queued" <=> \E i \in 1..Len(queue) : queue[i] = j

\* C6 witness: both workers are busy and a third job waits
C6_Witness ==
  /\ Cardinality(Running) = max_workers
  /\ queue # <<>>

C9_DecodeErrorIs4xx ==
  \A c \in Callers :
    (/\ callers[c].pc = "returned"
     /\ callers[c].job # None
     /\ jobs[callers[c].job].error = DecodeErrorText)
    => callers[c].status \in 400..499

(***************************************************************************)
(* Properties of _process_audio (SpecAudio)                                *)
(***************************************************************************)
ClaimedOrder(sample_rate) ==
  <<Librosa(sample_rate), Soundfile, Librosa(16000), Librosa(22050),
    Librosa(44100), Librosa(48000)>>

Attempt(a, strategy) ==
  IF strategy.lib = "soundfile" THEN sf_read(a) ELSE librosa_load(a, strategy.sr)

\* C8: the strategies are tried in the order librosa at the hinted rate,
\* soundfile, librosa at 16000, 22050, 44100, 48000; the first that succeeds
\* is the last one tried and supplies the waveform and rate that are
\* normalized; when that is soundfile, the final waveform is its output made
\* mono, resampled from its native rate and padded
C8_FirstSuccessWins ==
  a_pc # "call" =>
    LET order == ClaimedOrder(a_in.sample_rate)
        wins == {i \in 1..Len(order) : Attempt(a_in.audio, order[i]).ok}
    IN IF wins = {}
       THEN /\ a_out.tried = order
            /\ a_out.decoded = NoArray
       ELSE LET k == CHOOSE i \in wins : \A i2 \in wins : i <= i2
                r == Attempt(a_in.audio, order[k])
            IN /\ a_out.tried = SubSeq(order, 1, k)
               /\ a_out.decoded = r.array
               /\ a_out.decoded_sr = r.sr
               /\ k = 2 =>
                    a_out.audio_array =
                      EnsureMinLength(resample(EnsureMono(sf_read(a_in.audio).array),
                                               a_in.audio.native, 16000))

\* C8 witness: librosa failed at the hinted rate, soundfile succeeded, and
\* librosa would have succeeded at a later rate
C8_Witness ==
  /\ a_pc = "returned"
  /\ Len(a_out.tried) = 2
  /\ 48000 \in a_in.audio.primary
  /\ a_out.decoded = sf_read(a_in.audio).array

\* C10: the waveform handed to the feature extractor is at 16000 Hz and is
\* the mono 16 kHz waveform of n samples followed by max(0, 16000 - n) zeros
C10_PaddedNeverTruncated ==
  (a_pc # "call" /\ a_out.decoded # NoArray) =>
    LET n == len(a_out.mono16k)
        out == a_out.audio_array
    IN /\ a_out.sr = 16000
       /\ ndim(out) = 1
       /\ len(out) = IF n < 16000 THEN 16000 ELSE n
       /\ RunsLen(out.data[1]) = len(out)
       /\ Canon(Take(out.data[1], n)) = a_out.mono16k.data[1]
       /\ \A i \in 1..Len(Drop(out.data[1], n)) : Drop(out.data[1], n)[i].v = 0

\* C10 witness: a classified input shorter than one second with non-zero
\* samples
C10_Witness ==
  /\ a_pc = "returned"
  /\ len(a_out.mono16k) \in 1..15999
  /\ a_out.mono16k.data[1][1].v # 0

\* C11: whichever strategy decoded a multi-channel input, the mono waveform
\* obtained from it (lines 122-124) has as many samples as one channel of the
\* decoded audio has frames.
C11_MonoKeepsFrameCount ==
  (a_pc # "call" /\ a_out.decoded # NoArray /\ Len(a_in.audio.chans) > 1) =>
    /\ ndim(a_out.mono) = 1
    /\ len(a_out.mono) = len(a_out.decoded)

\* a step in which a classification fails: its work item ends by raising
\* (decoding, feature extraction or forward pass), or process_audio_file hands
\* the failure to its caller
FailedClassificationStep ==
  \/ \E j \in JobIds : /\ jobs[j].kind = "process"
                       /\ jobs[j].st \in RunningStates
                       /\ jobs'[j].st = "done" /\ jobs'[j].res.raised
  \/ \E c \in Callers : /\ callers[c].pc = "await_proc"
                        /\ callers'[c].pc = "returned"
                        /\ callers'[c].status = 500

LabelSet == {emotion_labels[i] : i \in DOMAIN emotion_labels}

\* C12: dominant_emotion is a label of highest probability, the earliest
\* declared one among equals, and confidence is the probability the emotions
\* mapping reports for it.
C12_DominantIsFirstArgmax ==
  fn_pc = "returned" =>
    LET p == fn_out.emotions
        d == fn_out.dominant_emotion
    IN /\ d \in DOMAIN p
       /\ \A l \in DOMAIN p : p[l] <= p[d]
       /\ \A i, j \in DOMAIN emotion_labels :
            (emotion_labels[i] = d /\ j < i) => p[emotion_labels[j]] < p[d]
       /\ fn_out.confidence = p[d]

\* two labels tie for the highest probability and neither is the first label
C12_Witness ==
  /\ fn_pc = "returned"
  /\ fn_out.dominant_emotion = "calm"
  /\ fn_out.emotions["sad"] = fn_out.emotions["calm"]
  /\ fn_out.emotions["angry"] < fn_out.emotions["calm"]

\* C13: the emotions mapping has exactly the 8 labels, every probability is
\* at least 0 and the probabilities sum to 1 within 1e-4.
C13_ProbabilitiesFormDistribution ==
  fn_pc = "returned" =>
    LET p == fn_out.emotions
        total == SeqSum([i \in DOMAIN emotion_labels |-> p[emotion_labels[i]]])
    IN /\ DOMAIN p = LabelSet
       /\ Cardinality(DOMAIN p) = 8
       /\ \A l \in DOMAIN p : p[l] >= 0
       /\ total - ProbOne <= ProbOne \div 10000
       /\ ProbOne - total <= ProbOne \div 10000

\* a distribution that is not uniform and whose rounded entries do not add up
\* to exactly 1
C13_Witness ==
  /\ fn_pc = "returned"
  /\ fn_out.emotions["angry"] # fn_out.emotions["calm"]
  /\ SeqSum([i \in DOMAIN emotion_labels |-> fn_out.emotions[emotion_labels[i]]]) # ProbOne

(***************************************************************************)
(* Properties of the entry points (SpecEntry)                              *)
(***************************************************************************)
\* the last call was given no audio: zero bytes, or no chunk with any byte
EmptyInputCall ==
  /\ o_last.op \in EntryOps \ {"test_initialize_model"}
  /\ IF o_last.op = "process_audio_stream"
     THEN join(o_last.args.chunks).size = 0
     ELSE o_last.args.audio.size = 0

\* C15: on every entry point a call with empty input ends in a validation
\* error (HTTP 4xx, or an error entry that is neither the decode error nor an
\* internal error) and submits no work item to the executor.
C15_EmptyInputIsValidationError ==
  EmptyInputCall =>
    /\ ~o_last.raised
    /\ o_last.submitted = 0
    /\ o_last.internal = ""
    /\ IF o_last.op \in HttpOps
       THEN o_last.ret.status \in 400..499
       ELSE /\ "error" \in DOMAIN o_last.ret
            /\ o_last.ret.error # DecodeErrorText

\* C17: when an endpoint call meets an internal failure (model load or
\* inference) it answers with a 5xx status, and the same call in a run that
\* differs only in the text of the internal exception gets the same answer.
C17_InternalFailureResponseHidesText ==
  (o_last.op \in HttpOps /\ o_last.internal # "") =>
    /\ o_last.ret.status \in 500..599
    /\ \A t \in InternalTexts :
         EntryOutcome(o_last.op, [o_last.args EXCEPT !.text = t], o_last.pre).ret
           = o_last.ret

(***************************************************************************)
(* Properties of the public operations (SpecOps)                           *)
(***************************************************************************)
\* C16: no failure leaves a public operation as an exception:
\* process_audio_file returns a dictionary, with an error entry when the load,
\* the decoding or the inference failed; register_face and remove_face return
\* a boolean; authenticate_by_face returns a user of the table or none.
C16_FailuresBecomeDeclaredResults ==
  /\ ~o_last.raised
  /\ o_last.op = "process_audio_file" =>
       /\ {"emotions", "dominant_emotion", "confidence"} \subseteq DOMAIN o_last.ret
       /\ ("error" \in DOMAIN o_last.ret) <=>
            \/ o_last.internal # ""
            \/ LoadAudio(o_last.args.audio, o_last.args.sample_rate).array = NoArray
  /\ o_last.op \in {"register_face", "remove_face"} => o_last.ret \in BOOLEAN
  /\ o_last.op = "authenticate_by_face" =>
       \/ o_last.ret = NoUser
       \/ o_last.ret \in UserIds /\ users[o_last.ret].present

\* the commit of remove_face raised after the image file was deleted, and the
\* call returned False
C16_Witness ==
  /\ o_last.op = "remove_face"
  /\ o_last.args.fault = "commit"
  /\ o_last.pre.files # files
  /\ o_last.ret = FALSE
  /\ ~o_last.raised

\* an image that decodes and shows at least one face
HasFace(img) ==
  /\ img.b64_ok /\ img.raster /\ img.faces # <<>>
  /\ img.prefix = "data:image" => img.comma

\* the candidates a probe encoding is within tolerance of, by position
Within(us, probe) ==
  LET cands == users_with_face(us)
  IN {i \in DOMAIN cands :
        DistSq(probe, us[cands[i]].face_encoding.json) <= tolerance * tolerance}

\* C18: registering an image with a detectable face for an existing user,
\* with face login enabled, returns True, and authenticating with the same
\* image afterwards returns that user unless an enabled user earlier in the
\* scan is within tolerance.
C18_RegisterThenAuthenticate ==
  (/\ o_last.op = "register_face"
   /\ o_last.pre.users[o_last.args.user_id].present
   /\ HasFace(o_last.args.image)
   /\ o_last.args.enable /\ o_last.args.available
   /\ o_last.args.fault = "none") =>
    LET u == o_last.args.user_id
        img == o_last.args.image
        cands == users_with_face(users)
    IN /\ o_last.ret = TRUE
       /\ (\A i \in Within(users, img.faces[1]) : cands[i] >= u) =>
            authenticate_by_face_result(users, files, img, TRUE, "none").ret = u

\* C20: for a probe image with a face, authenticate_by_face returns the first
\* candidate in scan order whose distance is within the tolerance, whether or
\* not a later one is closer, and none exactly when no candidate is within it.
C20_FirstCandidateWithinTolerance ==
  (/\ o_last.op = "authenticate_by_face"
   /\ HasFace(o_last.args.image)
   /\ o_last.args.available
   /\ o_last.args.fault = "none") =>
    LET cands == users_with_face(users)
        within == Within(users, o_last.args.image.faces[1])
    IN IF within = {} THEN o_last.ret = NoUser
       ELSE o_last.ret = cands[CHOOSE i \in within : \A k \in within : i <= k]

\* an image that decodes to a raster in which no face is detected
Faceless(img) ==
  /\ img.b64_ok /\ img.raster /\ img.faces = <<>>
  /\ img.prefix = "data:image" => img.comma

\* C21: authenticate_by_face on a decodable image without a face returns none
\* and register_face on it returns False, neither raising; the call makes no
\* call on the database, writes no file, compares no candidate, and leaves
\* the users table and the face files as they were.
C21_NoFaceIsNegativeOutcome ==
  (/\ o_last.op \in {"authenticate_by_face", "register_face"}
   /\ Faceless(o_last.args.image)) =>
    /\ ~o_last.raised
    /\ o_last.ret = IF o_last.op = "register_face" THEN FALSE ELSE NoUser
    /\ o_last.calls = <<>>
    /\ o_last.compared = 0
    /\ users = o_last.pre.users
    /\ files = o_last.pre.files

\* authenticate_by_face was called with a faceless image while the table held
\* candidates to compare with, and returned none
C21_Witness ==
  /\ o_last.op = "authenticate_by_face"
  /\ Faceless(o_last.args.image)
  /\ o_last.args.fault = "none"
  /\ users_with_face(users) # <<>>
  /\ o_last.ret = NoUser

\* C22: what register_face or authenticate_by_face returns or raises for a
\* malformed image (one _base64_to_image raises on) differs from what the same
\* call returns or raises, from the same table, for a well-formed image
\* without a face.
C22_NoFaceDistinctFromDecodeError ==
  (/\ o_last.op \in {"authenticate_by_face", "register_face"}
   /\ base64_to_image(o_last.args.image).raised) =>
    \A other \in {img \in Images : Faceless(img)} :
      LET args == o_last.args
          out == IF o_last.op = "register_face"
                 THEN register_face_result(o_last.pre.users, o_last.pre.files,
                                           args.user_id, other, args.enable,
                                           args.available, args.fault)
                 ELSE authenticate_by_face_result(o_last.pre.users, o_last.pre.files,
                                                  other, args.available, args.fault)
      IN <<out.raised, out.ret>> # <<o_last.raised, o_last.ret>>

\* a user authenticate_by_face may return: face login enabled, encoding stored
MayLogin(us, u) ==
  us[u].present /\ us[u].face_enabled /\ ~us[u].face_encoding.null

\* C23: whatever registrations and removals came before, a user returned by
\* authenticate_by_face has face login enabled and a stored encoding, and so
\* does the user the scan of the table finds for any probe encoding.
C23_OnlyEnabledUsersAuthenticate ==
  /\ (o_last.op = "authenticate_by_face" /\ o_last.ret # NoUser) =>
       MayLogin(users, o_last.ret)
  /\ \A probe \in StoredEncodings \cup {<<6000, 0>>} :
       LET found == FirstMatch(users, probe, users_with_face(users), TRUE)
       IN found # NoUser => MayLogin(users, found)

\* authenticate_by_face was called with a face that is within tolerance of
\* the stored encoding of a user whose face login is disabled
C23_Witness ==
  /\ o_last.op = "authenticate_by_face"
  /\ HasFace(o_last.args.image)
  /\ o_last.args.fault = "none"
  /\ \E u \in UserIds :
       /\ users[u].present /\ ~users[u].face_enabled
       /\ ~users[u].face_encoding.null
       /\ compare_faces(o_last.args.image.faces[1],
                        json_loads(users[u].face_encoding), TRUE)
  /\ o_last.ret = NoUser

\* C24: remove_face for an existing user, when the lookup and the commit work,
\* returns True, leaves the user without encoding, image path and enabled
\* flag, and deletes the stored image file when it exists and can be deleted;
\* when deleting the file fails, the three fields are cleared all the same.
C24_RemovalSurvivesFileDeletionFailure ==
  (/\ o_last.op = "remove_face"
   /\ o_last.pre.users[o_last.args.user_id].present
   /\ o_last.args.fault \in {"none", "remove"}) =>
    LET u == o_last.args.user_id
        path == o_last.pre.users[u].face_image_path
    IN /\ users[u].face_encoding = SqlNull
       /\ users[u].face_image_path = NoPath
       /\ users[u].face_enabled = FALSE
       /\ o_last.args.fault = "none" => (path = NoPath \/ path \notin files)

C19_MatchIffWithinTolerance ==
  (fn_pc = "returned" /\ fn_in.available) =>
    LET dx == fn_in.encoding1[1] - fn_in.encoding2[1]
        dy == fn_in.encoding1[2] - fn_in.encoding2[2]
    IN fn_out.match <=> (dx * dx + dy * dy <= 36000000)

\* a pair at distance exactly 0.6 was accepted
C19_Witness ==
  /\ fn_pc = "returned"
  /\ fn_in.available
  /\ fn_in.encoding1 = <<0, 0>> /\ fn_in.encoding2 = <<3600, 4800>>
  /\ fn_out.match

AfterFirstComma(s) ==
  IF \A i \in DOMAIN s : s[i] # "," THEN s
  ELSE LET i == CHOOSE k \in DOMAIN s : s[k] = "," /\ \A m \in 1..(k - 1) : s[m] # ","
       IN SubSeq(s, i + 1, Len(s))

\* C25: for every input string, base64.b64decode is called, and its argument
\* is the input without everything up to and including its first comma when
\* the input holds a comma, and the whole input otherwise.
C25_StripsThroughFirstComma ==
  (fn_pc = "returned" /\ fn_in.kind = "b64") =>
    /\ ~fn_out.raised
    /\ fn_out.text = AfterFirstComma(fn_in.base64_string)

\* C26: each of the 8 labels has a colour and an emoji, and a string that is
\* no label gets the colour and the emoji of neutral, the colour being the
\* gray #6b7280.
C26_LookupsAreTotalWithNeutralDefault ==
  (fn_pc = "returned" /\ fn_in.kind = "lookup") =>
    /\ fn_out.color # "" /\ fn_out.emoji # <<>>
    /\ fn_in.emotion \in LabelSet =>
         /\ fn_out.color = emotion_colors[fn_in.emotion]
         /\ fn_out.emoji = emotion_emojis[fn_in.emotion]
    /\ fn_in.emotion \notin LabelSet =>
         /\ fn_out.color = "#6b7280"
         /\ fn_out.color = get_emotion_color("neutral")
         /\ fn_out.emoji = get_emotion_emoji("neutral")

\* the label of an error dictionary was looked up
C26_Witness ==
  /\ fn_pc = "returned" /\ fn_in.kind = "lookup"
  /\ fn_in.emotion = ErrorDict("x").dominant_emotion
  /\ fn_out.color = "#6b7280"

\* C27: GET /api/v1/emotion/test/emotion-info, POST
\* /api/v1/emotion/test/initialize-model and POST
\* /api/v1/emotion/test/analyze-audio reach their handlers of emotion.py and
\* are answered 200 when the handler succeeds, emotion-info with one entry per
\* label of the label set.
C27_EmotionEndpointsAreServed ==
  (/\ fn_pc = "returned" /\ fn_in.kind = "request"
   /\ Len(fn_in.path) = 5
   /\ SubSeq(fn_in.path, 1, 4) = <<"api", "v1", "emotion", "test">>
   /\ fn_in.method # "OPTIONS") =>
    /\ fn_out.status = 200
    /\ fn_out.endpoint =
         (CHOOSE r \in emotion_router :
            r.method = fn_in.method /\ r.path = SubSeq(fn_in.path, 4, 5)).endpoint
    /\ fn_in.path[5] = "emotion-info" =>
         /\ Len(fn_out.data.emotions) = Len(emotion_labels)
         /\ \A i \in DOMAIN emotion_labels :
              fn_out.data.emotions[i].emotion = emotion_labels[i]

(***************************************************************************)
(* Properties of the schedule endpoints (SpecSchedules)                    *)
(***************************************************************************)

\* C30: after any sequence of create_schedule and update_schedule requests,
\* updates that supply only one of the two times included, every stored
\* schedule ends strictly after it starts, and a request answered 400 leaves
\* the table as it was
C30_StoredSchedulesEndAfterStart ==
  /\ \A id \in DOMAIN schedules : schedules[id].end_time > schedules[id].start_time
  /\ (o_last.op \in {"create_schedule", "update_schedule"} /\ o_last.ret = 400)
       => schedules = o_last.pre

====
